---- MODULE Spec2Model ----
(***************************************************************************)
(* Model of src/my_package/server.py: the SSHSession transport wrapper and *)
(* the terminal_websocket handler with its read_ssh_output relay task.     *)
(*                                                                         *)
(* The asyncio event loop runs one coroutine at a time and switches only   *)
(* at an await that suspends.  The handler suspends in receive_json, the   *)
(* relay task suspends in asyncio.sleep, and both can suspend in           *)
(* send_json; everything between two such points is one atomic action      *)
(* here.  send_json raises at once when the client has disconnected;       *)
(* otherwise it hands its frame to the connection and then suspends (a     *)
(* send that does not suspend is the run in which the caller is resumed    *)
(* next), so a read and the handing over of what was read are one step.    *)
(* A caller suspended in send_json is resumed by the send returning, or    *)
(* by its failure once the client has disconnected.                        *)
(* Frames the client sent before it disconnected are still returned by     *)
(* receive_json; only then does it raise.  receive_json also raises on a   *)
(* frame that is not JSON text, and the server may cancel the handler at   *)
(* any await.                                                              *)
(* SSHSession.connect is a blocking call: no task runs while it executes.  *)
(***************************************************************************)
EXTENDS Integers, Sequences, FiniteSets, TLC

\* ---- bounds of the model ------------------------------------------------
MaxMsgs == 3      \* inbound messages dispatched on the WebSocket
MaxConn == 2      \* SSHClient objects created by connect
MaxChunks == 2    \* output chunks produced by the remote shells

\* ---- program constants --------------------------------------------------
RecvSize == 4096
DefaultCols == 80
DefaultRows == 24
InitWidth == 80
InitHeight == 24

None == 0

VARIABLES
    ssh_session,   \* [client, channel, connected]: the fields of SSHSession
    clients,       \* the paramiko.SSHClient objects created so far
    channels,      \* the paramiko.Channel objects created so far
    output_task,   \* the handler's local output_task: None or a task index
    tasks,         \* position of every read_ssh_output task created
    hpc,           \* position of the handler: "recv", "ack", "err" or "done"
    wsOpen,        \* the browser is still connected to the WebSocket
    wsQueued,      \* frames of a disconnected client not yet received
    wsSent,        \* messages handed to websocket.send_json, in order
    outSrc,        \* history: <<channel, chunk>> of every byte sent as output
    received,      \* history: messages returned by receive_json
    produced,      \* history: chunks the shells produced, in order
    exitCause,     \* history: why the handler left its loop
    ioError        \* history: the channel exception the last step swallowed, if any

vars == <<ssh_session, clients, channels, output_task, tasks, hpc, wsOpen, wsQueued,
          wsSent, outSrc, received, produced, exitCause, ioError>>

\* ---- str.encode() and bytes.decode('utf-8', errors='replace') -----------
\* A str is a sequence of code points, a bytes object a sequence of 0..255.

IsSurrogate(cp) == cp >= 55296 /\ cp <= 57343

Encodable(s) == \A i \in 1..Len(s) : ~IsSurrogate(s[i])

EncodeChar(cp) ==
    IF cp < 128 THEN <<cp>>
    ELSE IF cp < 2048 THEN <<192 + (cp \div 64), 128 + (cp % 64)>>
    ELSE IF cp < 65536 THEN
        <<224 + (cp \div 4096), 128 + ((cp \div 64) % 64), 128 + (cp % 64)>>
    ELSE <<240 + (cp \div 262144), 128 + ((cp \div 4096) % 64),
           128 + ((cp \div 64) % 64), 128 + (cp % 64)>>

RECURSIVE encode(_)
encode(s) == IF s = <<>> THEN <<>> ELSE EncodeChar(Head(s)) \o encode(Tail(s))

Replacement == 65533

SeqLen(b) ==
    IF b < 128 THEN 1
    ELSE IF b >= 194 /\ b <= 223 THEN 2
    ELSE IF b >= 224 /\ b <= 239 THEN 3
    ELSE IF b >= 240 /\ b <= 244 THEN 4
    ELSE 0

SecondLo(b) == IF b = 224 THEN 160 ELSE IF b = 240 THEN 144 ELSE 128
SecondHi(b) == IF b = 237 THEN 159 ELSE IF b = 244 THEN 143 ELSE 191

IsCont(b) == b >= 128 /\ b <= 191

\* number of leading bytes of bs that are a valid start of one character
ValidPrefix(bs) ==
    LET n == SeqLen(bs[1])
        k2 == n >= 2 /\ Len(bs) >= 2
              /\ bs[2] >= SecondLo(bs[1]) /\ bs[2] <= SecondHi(bs[1])
        k3 == k2 /\ n >= 3 /\ Len(bs) >= 3 /\ IsCont(bs[3])
        k4 == k3 /\ n >= 4 /\ Len(bs) >= 4 /\ IsCont(bs[4])
    IN IF k4 THEN 4 ELSE IF k3 THEN 3 ELSE IF k2 THEN 2 ELSE 1

CodePoint(bs, n) ==
    IF n = 1 THEN bs[1]
    ELSE IF n = 2 THEN (bs[1] - 192) * 64 + (bs[2] - 128)
    ELSE IF n = 3 THEN (bs[1] - 224) * 4096 + (bs[2] - 128) * 64 + (bs[3] - 128)
    ELSE (bs[1] - 240) * 262144 + (bs[2] - 128) * 4096
         + (bs[3] - 128) * 64 + (bs[4] - 128)

RECURSIVE decode(_)
decode(bs) ==
    IF bs = <<>> THEN <<>>
    ELSE LET n == SeqLen(bs[1])
             k == ValidPrefix(bs)
         IN IF n > 0 /\ k = n
            THEN <<CodePoint(bs, n)>> \o decode(SubSeq(bs, n + 1, Len(bs)))
            ELSE <<Replacement>> \o decode(SubSeq(bs, k + 1, Len(bs)))

\* ---- helpers --------------------------------------------------------------
Min(a, b) == IF a < b THEN a ELSE b

RECURSIVE Bytes(_)
Bytes(buf) == IF buf = <<>> THEN <<>> ELSE <<Head(buf).byte>> \o Bytes(Tail(buf))

RECURSIVE Tagged(_, _)
Tagged(bs, n) ==
    IF bs = <<>> THEN <<>> ELSE <<[chunk |-> n, byte |-> Head(bs)]>> \o Tagged(Tail(bs), n)

\* dict.get(key, default)
Get(m, f, d) == IF f \in DOMAIN m THEN m[f] ELSE d

\* ---- class SSHSession ---------------------------------------------------
\* The operators work on a world w = [s, clients, channels]: the session
\* object and the paramiko objects its methods call into.

World == [s |-> ssh_session, clients |-> clients, channels |-> channels]

NewSession == [client |-> None, channel |-> None, connected |-> FALSE]

\* outcomes of the body of connect
Outcomes == {"ok", "auth", "shell", "net"}

ConnectResult(outcome) ==
    IF outcome = "ok" THEN <<TRUE, "Connected">>
    ELSE IF outcome = "auth"
         THEN <<FALSE, "Authentication failed - check username/password">>
    ELSE IF outcome = "shell" THEN <<FALSE, "SSH error: e">>
    ELSE <<FALSE, "Connection failed: e">>

NewClient(outcome) == [open |-> outcome # "net", closes |-> 0]

NewChannel(owner) ==
    [client |-> owner, open |-> TRUE, closes |-> 0,
     sends |-> <<>>, inbox |-> <<>>,
     resizes |-> <<>>, size |-> <<InitWidth, InitHeight>>,
     outbuf |-> <<>>]

connect(w, outcome) ==
    LET cl == Len(w.clients) + 1
        ch == Len(w.channels) + 1
    IN IF outcome = "ok"
       THEN [s |-> [client |-> cl, channel |-> ch, connected |-> TRUE],
             clients |-> Append(w.clients, NewClient(outcome)),
             channels |-> Append(w.channels, NewChannel(cl))]
       ELSE [s |-> [w.s EXCEPT !.client = cl],
             clients |-> Append(w.clients, NewClient(outcome)),
             channels |-> w.channels]

\* channel.resize_pty: raises on a closed channel or a failed request (ok = FALSE)
resize_pty(c, width, height, ok) ==
    [c EXCEPT !.resizes = Append(@, <<width, height>>),
              !.size = IF ok /\ c.open THEN <<width, height>> ELSE @]

\* resize with its two arguments exchanged in the call of resize_pty
resize_swapped(w, width, height, ok) ==
    IF w.s.channel # None
    THEN [w EXCEPT !.channels[w.s.channel] = resize_pty(@, height, width, ok)]
    ELSE w

resize(w, width, height, ok) ==
    IF w.s.channel # None
    THEN [w EXCEPT !.channels[w.s.channel] = resize_pty(@, width, height, ok)]
    ELSE w

\* channel.send: raises on a closed channel or a timeout (ok = FALSE)
send(c, data, ok) ==
    [c EXCEPT !.sends = Append(@, data),
              !.inbox = IF ok /\ c.open THEN Append(@, data) ELSE @]

write(w, data, ok) ==
    IF w.s.channel # None
    THEN [w EXCEPT !.channels[w.s.channel] = send(@, data, ok)]
    ELSE w

read(w, ok) ==
    IF w.s.channel = None THEN [w |-> w, data |-> <<>>]
    ELSE LET c == w.channels[w.s.channel]
             n == Min(Len(c.outbuf), RecvSize)
         IN IF ok /\ c.outbuf # <<>>
            THEN [w |-> [w EXCEPT !.channels[w.s.channel].outbuf =
                                      SubSeq(c.outbuf, n + 1, Len(c.outbuf))],
                  data |-> SubSeq(c.outbuf, 1, n)]
            ELSE [w |-> w, data |-> <<>>]

\* SSHClient.close also ends every channel of its transport
ClientClose(w, cl) ==
    [w EXCEPT !.clients[cl] = [@ EXCEPT !.open = FALSE, !.closes = @ + 1],
              !.channels = [i \in DOMAIN w.channels |->
                              IF w.channels[i].client = cl
                              THEN [w.channels[i] EXCEPT !.open = FALSE]
                              ELSE w.channels[i]]]

ChannelClose(w, ch) ==
    [w EXCEPT !.channels[ch] = [@ EXCEPT !.open = FALSE, !.closes = @ + 1]]

\* close that forgets to drop its references to the channel and the client
close_keep(w) ==
    LET w1 == IF w.s.channel # None THEN ChannelClose(w, w.s.channel) ELSE w
        w2 == IF w.s.client # None THEN ClientClose(w1, w.s.client) ELSE w1
    IN [w2 EXCEPT !.s.connected = FALSE]

\* close that leaves the connected flag as it is
close_connected(w) ==
    LET w1 == IF w.s.channel # None THEN ChannelClose(w, w.s.channel) ELSE w
        w2 == IF w.s.client # None THEN ClientClose(w1, w.s.client) ELSE w1
    IN [w2 EXCEPT !.s.channel = None, !.s.client = None]

close(w) ==
    LET w1 == IF w.s.channel # None THEN ChannelClose(w, w.s.channel) ELSE w
        w2 == IF w.s.client # None THEN ClientClose(w1, w.s.client) ELSE w1
    IN [w2 EXCEPT !.s = NewSession]

\* ---- the inbound messages -------------------------------------------------
Payloads == {<<65>>, <<233>>, <<55296>>}
ColsSet == {-1, 120}
RowsSet == {0, 40}

ConnectMsgs == {[type |-> "connect"]}
InputMsgs == {[type |-> "input", data |-> d] : d \in Payloads} \cup {[type |-> "input"]}
ResizeMsgs == {[type |-> "resize", cols |-> c, rows |-> r] : c \in ColsSet, r \in RowsSet}
                \cup {[type |-> "resize"]}
OtherMsgs == {[type |-> "ping"], [data |-> <<65>>]}

\* A JSON object is the record of its fields.  A frame whose JSON text is not
\* an object is named by the kind of its value: [] , null, 5, "x".
NonObjects == {"array", "null", "number", "string"}

\* A frame receive_json cannot return: a text frame that is not JSON text
\* (JSONDecodeError), a binary frame (KeyError on the text of the frame).
BadFrames == {"text", "binary"}

OutChunks == {<<65>>, <<195, 169>>}

\* ---- terminal_websocket ---------------------------------------------------
\* the call of resize_pty / send on the session's channel raises (and the bare
\* except of resize / write swallows it)
CallRaises(w, ok) == w.s.channel # None /\ (~ok \/ ~w.channels[w.s.channel].open)

\* recv_ready / recv raises (and the bare except of read swallows it)
ReadRaises(w, ok) == w.s.channel # None /\ ~ok

Init ==
    /\ ssh_session = NewSession
    /\ clients = <<>>
    /\ channels = <<>>
    /\ output_task = None
    /\ tasks = <<>>
    /\ hpc = "recv"
    /\ wsOpen = TRUE
    /\ wsQueued = 0
    /\ wsSent = <<>>
    /\ outSrc = <<>>
    /\ received = <<>>
    /\ produced = <<>>
    /\ exitCause = "none"
    /\ ioError = "none"

SetWorld(w) ==
    /\ ssh_session' = w.s
    /\ clients' = w.clients
    /\ channels' = w.channels

\* task.cancel(): a task suspended in sleep, or not yet started, never runs
\* again; a task suspended in send_json gets the CancelledError inside the try,
\* whose bare except swallows it, and ends by the break
Cancel(ts, t) ==
    IF t # None /\ ts[t] \in {"start", "sleep"} THEN [ts EXCEPT ![t] = "cancelled"]
    ELSE IF t # None /\ ts[t] = "send" THEN [ts EXCEPT ![t] = "broke"]
    ELSE ts

\* finally block that closes the session without cancelling the relay task
Finally_nocancel(w, cause) ==
    /\ tasks' = tasks
    /\ SetWorld(close(w))
    /\ hpc' = "done"
    /\ exitCause' = cause

\* the finally block
Finally(w, cause) ==
    /\ tasks' = Cancel(tasks, output_task)
    /\ SetWorld(close(w))
    /\ hpc' = "done"
    /\ exitCause' = cause

\* A failed receive or send on the WebSocket raises WebSocketDisconnect (line
\* 194) or, once the connection is marked closed, a RuntimeError (line 196).
WsCauses == {"disconnect", "exception"}

\* receive_json returns a frame: one the connected client sends, or one it had
\* sent before it disconnected
CanReceive ==
    /\ hpc = "recv"
    /\ Len(received) < MaxMsgs
    /\ wsOpen \/ wsQueued > 0

\* one frame of the client is taken: the next it sends, or one it had sent
\* before it disconnected
Take == wsQueued' = IF wsOpen THEN wsQueued ELSE wsQueued - 1

LogValue(msg, json, outcome) ==
    /\ received' = Append(received, [msg |-> msg, json |-> json,
                                     channel |-> ssh_session.channel,
                                     outcome |-> outcome, open |-> wsOpen])
    /\ Take

Log(msg, outcome) == LogValue(msg, "object", outcome)

\* await websocket.send_json(frame) in the handler, after the world became w:
\* the frame is handed to the connection and the handler is suspended at pc,
\* or the client is gone and the call raises
SendReply(w, frame, pc) ==
    IF wsOpen
    THEN /\ wsSent' = Append(wsSent, frame)
         /\ SetWorld(w)
         /\ hpc' = pc
         /\ UNCHANGED <<tasks, exitCause>>
    ELSE /\ wsSent' = wsSent
         /\ \E cause \in WsCauses : Finally(w, cause)

\* dispatch of connect that starts the relay task without the acknowledgement
DispatchConnect_noack(msg, outcome) ==
    /\ CanReceive
    /\ Get(msg, "type", "none") = "connect"
    /\ Len(clients) < MaxConn
    /\ Log(msg, outcome)
    /\ IF ConnectResult(outcome)[1]
       THEN /\ SetWorld(connect(World, outcome))
            /\ hpc' = "ack"
            /\ UNCHANGED <<wsSent, tasks, exitCause>>
       ELSE SendReply(connect(World, outcome),
                      [type |-> "error", message |-> ConnectResult(outcome)[2]], "err")
    /\ ioError' = "none"
    /\ UNCHANGED <<output_task, wsOpen, outSrc, produced>>

\* dispatch of connect that reports nothing when connect fails
DispatchConnect_silent(msg, outcome) ==
    /\ CanReceive
    /\ Get(msg, "type", "none") = "connect"
    /\ Len(clients) < MaxConn
    /\ Log(msg, outcome)
    /\ IF ConnectResult(outcome)[1]
       THEN SendReply(connect(World, outcome), [type |-> "connected"], "ack")
       ELSE /\ SetWorld(connect(World, outcome))
            /\ UNCHANGED <<wsSent, tasks, hpc, exitCause>>
    /\ ioError' = "none"
    /\ UNCHANGED <<output_task, wsOpen, outSrc, produced>>

\* lines 164-177 / 181: receive, connect, and the call of send_json
DispatchConnect(msg, outcome) ==
    /\ CanReceive
    /\ Get(msg, "type", "none") = "connect"
    /\ Len(clients) < MaxConn
    /\ Log(msg, outcome)
    /\ IF ConnectResult(outcome)[1]
       THEN SendReply(connect(World, outcome), [type |-> "connected"], "ack")
       ELSE SendReply(connect(World, outcome),
                      [type |-> "error", message |-> ConnectResult(outcome)[2]], "err")
    /\ ioError' = "none"
    /\ UNCHANGED <<output_task, wsOpen, outSrc, produced>>

\* the send_json of the reply returns: create_task after connected (line 179),
\* then back to receive_json; or it raises because the client has gone
ReplySent ==
    /\ hpc \in {"ack", "err"}
    /\ IF wsOpen
       THEN /\ IF hpc = "ack"
               THEN /\ tasks' = Append(tasks, "start")
                    /\ output_task' = Len(tasks) + 1
               ELSE UNCHANGED <<tasks, output_task>>
            /\ hpc' = "recv"
            /\ UNCHANGED <<ssh_session, clients, channels, exitCause>>
       ELSE /\ \E cause \in WsCauses : Finally(World, cause)
            /\ UNCHANGED output_task
    /\ ioError' = "none"
    /\ UNCHANGED <<wsOpen, wsQueued, wsSent, outSrc, received, produced>>

DispatchInput(msg, ok) ==
    /\ CanReceive
    /\ Get(msg, "type", "none") = "input"
    /\ Log(msg, "none")
    /\ LET data == Get(msg, "data", <<>>)
       IN IF Encodable(data)
          THEN /\ SetWorld(write(World, encode(data), ok))
               /\ ioError' = IF CallRaises(World, ok) THEN "write" ELSE "none"
               /\ UNCHANGED <<tasks, hpc, exitCause>>
          ELSE Finally(World, "exception") /\ ioError' = "none"
    /\ UNCHANGED <<output_task, wsOpen, wsSent, outSrc, produced>>

\* dispatch of resize in which an exception of resize_pty is not swallowed
DispatchResize_raise(msg, ok) ==
    /\ CanReceive
    /\ Get(msg, "type", "none") = "resize"
    /\ Log(msg, "none")
    /\ LET cols == Get(msg, "cols", DefaultCols)
           rows == Get(msg, "rows", DefaultRows)
       IN IF CallRaises(World, ok)
          THEN Finally(resize(World, cols, rows, ok), "exception")
          ELSE SetWorld(resize(World, cols, rows, ok))
               /\ UNCHANGED <<tasks, hpc, exitCause>>
    /\ ioError' = IF CallRaises(World, ok) THEN "resize" ELSE "none"
    /\ UNCHANGED <<output_task, wsOpen, wsSent, outSrc, produced>>

DispatchResize(msg, ok) ==
    /\ CanReceive
    /\ Get(msg, "type", "none") = "resize"
    /\ Log(msg, "none")
    /\ LET cols == Get(msg, "cols", DefaultCols)
           rows == Get(msg, "rows", DefaultRows)
       IN SetWorld(resize(World, cols, rows, ok))
    /\ ioError' = IF CallRaises(World, ok) THEN "resize" ELSE "none"
    /\ UNCHANGED <<output_task, tasks, hpc, wsOpen, wsSent, outSrc, produced, exitCause>>

\* an object whose type is none of the three: no branch of the loop body runs
DispatchOther(msg) ==
    /\ CanReceive
    /\ Get(msg, "type", "none") \notin {"connect", "input", "resize"}
    /\ Log(msg, "none")
    /\ ioError' = "none"
    /\ UNCHANGED <<ssh_session, clients, channels, output_task, tasks, hpc,
                   wsOpen, wsSent, outSrc, produced, exitCause>>

\* receive_json returns a value that is not an object: message.get (line 165)
\* raises AttributeError, caught at line 196.  The value has no fields.
DispatchNonObject(v) ==
    /\ CanReceive
    /\ v \in NonObjects
    /\ LogValue(<<>>, v, "none")
    /\ Finally(World, "exception")
    /\ ioError' = "none"
    /\ UNCHANGED <<output_task, wsOpen, wsSent, outSrc, produced>>

\* receive_json raises on a frame it cannot decode, caught at line 196; no
\* message is returned
ReceiveRaises(f) ==
    /\ hpc = "recv"
    /\ wsOpen \/ wsQueued > 0
    /\ f \in BadFrames
    /\ Take
    /\ Finally(World, "exception")
    /\ ioError' = "none"
    /\ UNCHANGED <<output_task, wsOpen, wsSent, outSrc, received, produced>>

\* receive_json raises: the client has gone and no frame of it is left
HandlerDisconnect ==
    /\ hpc = "recv"
    /\ ~wsOpen
    /\ wsQueued = 0
    /\ \E cause \in WsCauses : Finally(World, cause)
    /\ ioError' = "none"
    /\ UNCHANGED <<output_task, wsOpen, wsQueued, wsSent, outSrc, received, produced>>

\* the server cancels the handler while it is suspended in receive_json or in
\* send_json: CancelledError is not an Exception, neither except clause runs,
\* the finally block does
HandlerCancelled ==
    /\ hpc \in {"recv", "ack", "err"}
    /\ Finally(World, exitCause)
    /\ ioError' = "none"
    /\ UNCHANGED <<output_task, wsOpen, wsQueued, wsSent, outSrc, received, produced>>

\* ---- read_ssh_output ------------------------------------------------------
LoopTest == IF ssh_session.connected THEN "sleep" ELSE "done"

\* first run of a task: the loop test, then the sleep
RelayStart(t) ==
    /\ tasks[t] = "start"
    /\ tasks' = [tasks EXCEPT ![t] = LoopTest]
    /\ UNCHANGED <<ssh_session, clients, channels, output_task, hpc, wsOpen, wsQueued,
                   wsSent, outSrc, received, produced, exitCause, ioError>>

RECURSIVE Sources(_, _)
Sources(buf, ch) ==
    IF buf = <<>> THEN <<>> ELSE <<<<ch, Head(buf).chunk>>>> \o Sources(Tail(buf), ch)

\* the sleep returns: read; with data, the call of send_json hands the frame to
\* the connection and suspends the task, or raises because the client has gone;
\* without data, the loop test
RelayPoll(t, ok) ==
    /\ tasks[t] = "sleep"
    /\ LET r == read(World, ok)
       IN /\ SetWorld(r.w)
          /\ IF r.data # <<>>
             THEN IF wsOpen
                  THEN /\ wsSent' = Append(wsSent, [type |-> "output",
                                                    data |-> decode(Bytes(r.data))])
                       /\ outSrc' = outSrc \o Sources(r.data, ssh_session.channel)
                       /\ tasks' = [tasks EXCEPT ![t] = "send"]
                  ELSE /\ tasks' = [tasks EXCEPT ![t] = "broke"]
                       /\ UNCHANGED <<wsSent, outSrc>>
             ELSE /\ tasks' = [tasks EXCEPT ![t] = LoopTest]
                  /\ UNCHANGED <<wsSent, outSrc>>
    /\ ioError' = IF ReadRaises(World, ok) THEN "read" ELSE "none"
    /\ UNCHANGED <<output_task, hpc, wsOpen, wsQueued, received, produced, exitCause>>

\* the send_json of an output returns (the loop test follows) or raises
RelaySent(t) ==
    /\ tasks[t] = "send"
    /\ tasks' = [tasks EXCEPT ![t] = IF wsOpen THEN LoopTest ELSE "broke"]
    /\ ioError' = "none"
    /\ UNCHANGED <<ssh_session, clients, channels, output_task, hpc, wsOpen, wsQueued,
                   wsSent, outSrc, received, produced, exitCause>>

\* ---- the environment ------------------------------------------------------
ShellProduce(ch, bs) ==
    /\ channels[ch].open
    /\ Len(produced) < MaxChunks
    /\ produced' = Append(produced, [channel |-> ch, bytes |-> bs])
    /\ channels' = [channels EXCEPT ![ch].outbuf = @ \o Tagged(bs, Len(produced) + 1)]
    /\ UNCHANGED <<ssh_session, clients, output_task, tasks, hpc, wsOpen, wsQueued,
                   wsSent, outSrc, received, exitCause, ioError>>

\* the remote shell exits or the server closes the channel
PeerClose(ch) ==
    /\ channels[ch].open
    /\ channels' = [channels EXCEPT ![ch].open = FALSE]
    /\ UNCHANGED <<ssh_session, clients, output_task, tasks, hpc, wsOpen, wsQueued,
                   wsSent, outSrc, received, produced, exitCause, ioError>>

\* the client disconnects, n frames it sent before not yet received
ClientDisconnect(n) ==
    /\ wsOpen
    /\ n <= MaxMsgs - Len(received)
    /\ hpc = "done" => n = 0
    /\ wsOpen' = FALSE
    /\ wsQueued' = n
    /\ UNCHANGED <<ssh_session, clients, channels, output_task, tasks, hpc,
                   wsSent, outSrc, received, produced, exitCause, ioError>>

Next ==
    \/ \E m \in ConnectMsgs, o \in Outcomes : DispatchConnect(m, o)
    \/ ReplySent
    \/ \E m \in InputMsgs, ok \in BOOLEAN : DispatchInput(m, ok)
    \/ \E m \in ResizeMsgs, ok \in BOOLEAN : DispatchResize(m, ok)
    \/ \E m \in OtherMsgs : DispatchOther(m)
    \/ \E v \in NonObjects : DispatchNonObject(v)
    \/ \E f \in BadFrames : ReceiveRaises(f)
    \/ HandlerDisconnect
    \/ HandlerCancelled
    \/ \E t \in DOMAIN tasks : RelayStart(t)
    \/ \E t \in DOMAIN tasks, ok \in BOOLEAN : RelayPoll(t, ok)
    \/ \E t \in DOMAIN tasks : RelaySent(t)
    \/ \E ch \in DOMAIN channels, bs \in OutChunks : ShellProduce(ch, bs)
    \/ \E ch \in DOMAIN channels : PeerClose(ch)
    \/ \E n \in 0..MaxMsgs : ClientDisconnect(n)

Spec == Init /\ [][Next]_vars

\* The event loop runs every task that is ready: a relay task whose sleep or
\* send is over is resumed, as is the handler when its send is over or its
\* receive_json has a disconnect to report.  The client is under no obligation
\* to send a frame or to disconnect, nor the server to cancel the handler.
Fairness ==
    /\ \A t \in 1..MaxConn : WF_vars(t \in DOMAIN tasks /\ RelayStart(t))
    /\ \A t \in 1..MaxConn :
          WF_vars(t \in DOMAIN tasks /\ \E ok \in BOOLEAN : RelayPoll(t, ok))
    /\ \A t \in 1..MaxConn : WF_vars(t \in DOMAIN tasks /\ RelaySent(t))
    /\ WF_vars(ReplySent)
    /\ WF_vars(HandlerDisconnect)

\* The same actions over one message of each kind and one output chunk: which
\* tasks run and whether they end does not depend on the payloads.
LiveInputs == {[type |-> "input", data |-> <<65>>], [type |-> "input", data |-> <<55296>>]}

LiveNext ==
    \/ \E o \in Outcomes : DispatchConnect([type |-> "connect"], o)
    \/ ReplySent
    \/ \E m \in LiveInputs : DispatchInput(m, TRUE)
    \/ DispatchResize([type |-> "resize"], TRUE)
    \/ DispatchOther([type |-> "ping"])
    \/ DispatchNonObject("array")
    \/ ReceiveRaises("text")
    \/ HandlerDisconnect
    \/ HandlerCancelled
    \/ \E t \in DOMAIN tasks : RelayStart(t)
    \/ \E t \in DOMAIN tasks, ok \in BOOLEAN : RelayPoll(t, ok)
    \/ \E t \in DOMAIN tasks : RelaySent(t)
    \/ \E ch \in DOMAIN channels : ShellProduce(ch, <<65>>)
    \/ \E ch \in DOMAIN channels : PeerClose(ch)
    \/ \E n \in 0..MaxMsgs : ClientDisconnect(n)

FairSpec == Init /\ [][LiveNext]_vars /\ Fairness

\* ---- histories read by the properties -------------------------------------
RECURSIVE Select(_, _, _)
\* the entries of the log whose message has type ty, received with channel ch
Select(log, ty, ch) ==
    IF log = <<>> THEN <<>>
    ELSE LET rest == Select(Tail(log), ty, ch)
         IN IF Get(Head(log).msg, "type", "none") = ty /\ Head(log).channel = ch
            THEN <<Head(log)>> \o rest ELSE rest

RECURSIVE OfType(_, _)
OfType(log, tys) ==
    IF log = <<>> THEN <<>>
    ELSE IF Get(Head(log), "type", "none") \in tys
         THEN <<Head(log)>> \o OfType(Tail(log), tys) ELSE OfType(Tail(log), tys)

RECURSIVE Connects(_)
Connects(log) ==
    IF log = <<>> THEN <<>>
    ELSE IF Get(Head(log).msg, "type", "none") = "connect"
         THEN <<Head(log)>> \o Connects(Tail(log)) ELSE Connects(Tail(log))

RECURSIVE Produced(_, _)
\* <<channel, chunk>> for every byte the shells of the session produced, in
\* production order; chunks are numbered from n
Produced(log, n) ==
    IF log = <<>> THEN <<>>
    ELSE [i \in 1..Len(Head(log).bytes) |-> <<Head(log).channel, n>>]
           \o Produced(Tail(log), n + 1)

IsPrefix(a, b) == Len(a) <= Len(b) /\ a = SubSeq(b, 1, Len(a))

FailedAt(i) ==
    /\ Get(received[i].msg, "type", "none") = "connect"
    /\ received[i].outcome # "ok"

\* ---- C1 -------------------------------------------------------------------
\* C1: every input message received while the session holds a channel has its
\* payload passed to channel.send, one call per message, in the order received.
C1_InputsReachWrite ==
    \A ch \in DOMAIN channels :
        LET ins == Select(received, "input", ch)
        IN /\ Len(channels[ch].sends) = Len(ins)
           /\ \A k \in 1..Len(ins) :
                LET d == Get(ins[k].msg, "data", <<>>)
                IN Encodable(d) =>
                     k <= Len(channels[ch].sends) /\ channels[ch].sends[k] = encode(d)

\* ---- C2 -------------------------------------------------------------------
\* C2: the output sent to the client is, byte for byte, an initial part of
\* what the shells of the session produced, in production order: whenever the
\* output carrying a chunk has been sent, the output carrying every chunk
\* produced before it on the session has been sent before it, also when the
\* client has sent more than one connect.  (Once the client has disconnected
\* no output is sent at all.)
C2_OutputOrder == IsPrefix(outSrc, Produced(produced, 1))

\* ---- C3 -------------------------------------------------------------------
\* C3: a failed connect dispatched while the client is connected is answered
\* by exactly one error message, and the handler then finishes: it does not
\* return to its loop and no further inbound message is dispatched.
C3_FailedConnectCloses ==
    \A i \in DOMAIN received :
        (FailedAt(i) /\ received[i].open) =>
            /\ i = Len(received)
            /\ hpc \in {"err", "done"}
            /\ Len(OfType(wsSent, {"error"})) = 1

\* ---- C4 -------------------------------------------------------------------
\* C4: once an error message was sent for a failed connect, no connected
\* message is sent on the same WebSocket.
C4_NoConnectedAfterError ==
    \A i, j \in DOMAIN wsSent :
        (i < j /\ wsSent[i].type = "error") => wsSent[j].type # "connected"

\* ---- C5 -------------------------------------------------------------------
\* C5: when a relay task has left its loop by the break after send_json
\* raised, the session has been torn down (the handler is finished and close
\* has run) without any further step of the dispatch loop.
C5_SendFailureTearsDown ==
    \A t \in DOMAIN tasks :
        tasks[t] = "broke" =>
            hpc = "done" /\ ssh_session = NewSession

\* ---- C6 -------------------------------------------------------------------
\* C6: every resize message received while the session holds a channel
\* invokes resize_pty once, and one with rows >= 1 and cols >= 1 invokes it
\* with width = cols and height = rows.
HasDims(m) == "cols" \in DOMAIN m /\ "rows" \in DOMAIN m

C6_ResizeForwarded ==
    \A ch \in DOMAIN channels :
        LET rs == Select(received, "resize", ch)
        IN /\ Len(channels[ch].resizes) = Len(rs)
           /\ \A k \in 1..Len(rs) :
                (HasDims(rs[k].msg) /\ rs[k].msg.rows >= 1 /\ rs[k].msg.cols >= 1)
                  => channels[ch].resizes[k] = <<rs[k].msg.cols, rs[k].msg.rows>>

C6_Witness ==
    \E ch \in DOMAIN channels :
        /\ Len(channels[ch].resizes) = 2
        /\ channels[ch].resizes[2] = <<120, 40>>
        /\ channels[ch].size = <<120, 40>>

\* ---- C7 -------------------------------------------------------------------
\* C7: resize_pty is never invoked with a width or a height below 1.
C7_ResizeClamped ==
    \A ch \in DOMAIN channels :
        \A k \in DOMAIN channels[ch].resizes :
            channels[ch].resizes[k][1] >= 1 /\ channels[ch].resizes[k][2] >= 1

\* ---- C8 -------------------------------------------------------------------
\* C8: in every state, a second close() changes nothing that the first left:
\* no further close of a channel or client, and connected = False,
\* channel = None, client = None; once the handler has closed the session,
\* another close() leaves the whole world as it is.
C8_CloseIdempotent ==
    /\ close(close(World)) = close(World)
    /\ close(World).s = NewSession
    /\ hpc = "done" => close(World) = World

C8_Witness ==
    /\ hpc = "done"
    /\ \E ch \in DOMAIN channels : channels[ch].closes = 1
    /\ \E cl \in DOMAIN clients : clients[cl].closes = 1

\* ---- C9 -------------------------------------------------------------------
RECURSIVE WhileOpen(_)
\* the messages of a receive history that were dispatched while the client
\* was connected
WhileOpen(log) ==
    IF log = <<>> THEN <<>>
    ELSE IF Head(log).open THEN <<Head(log)>> \o WhileOpen(Tail(log))
         ELSE WhileOpen(Tail(log))

\* the connected and error messages sent answer the connects cs, one each and
\* in order: connected for a connect that succeeded, error with a message for
\* one that failed
Answers(cs) ==
    LET rs == OfType(wsSent, {"connected", "error"})
    IN /\ Len(rs) = Len(cs)
       /\ \A k \in 1..Len(cs) :
            k <= Len(rs) =>
              IF cs[k].outcome = "ok"
              THEN rs[k] = [type |-> "connected"]
              ELSE rs[k].type = "error" /\ "message" \in DOMAIN rs[k]
                   /\ rs[k].message # ""

\* C9 (as stated): every connect message dispatched is answered by exactly one
\* server message, connected for a connect that succeeded, error with a
\* message for one that failed, never both and never neither.
C9_ConnectAnswered == Answers(Connects(received))

\* C9 (amended): every connect message dispatched while the client is
\* connected is answered by exactly one server message, connected or error
\* with a message; a connect dispatched after the client has disconnected is
\* answered by none.  In every state, also once the handler has finished,
\* no connect dispatched while the client was connected is without its
\* answer: no exception of the connect operation ended the handler first.
C9_ConnectAnsweredWhileOpen == Answers(Connects(WhileOpen(received)))

C9_Witness ==
    /\ Len(received) = 2
    /\ FailedAt(1) /\ received[1].open
    /\ Get(received[2].msg, "type", "none") = "connect"
    /\ received[2].outcome = "ok" /\ ~received[2].open
    /\ Len(OfType(wsSent, {"connected", "error"})) = 1
    /\ hpc = "done"

\* ---- C10 ------------------------------------------------------------------
\* C10: while the session holds no channel, dispatching an input or resize
\* message changes nothing but the receive history (no transport, no session
\* field, no task, nothing sent, the handler stays in its loop), and a poll
\* of the relay task reads nothing and sends nothing.
NoChannelStep ==
    LET last == received'[Len(received')]
    IN (/\ ssh_session.channel = None
        /\ received' # received
        /\ Get(last.msg, "type", "none") \in {"input", "resize"})
       => UNCHANGED <<ssh_session, clients, channels, output_task, tasks, hpc,
                      wsSent, outSrc, exitCause>>

NoChannelPoll ==
    (ssh_session.channel = None /\ tasks' # tasks /\ received' = received)
       => UNCHANGED <<ssh_session, clients, channels, wsSent, outSrc>>

C10_NoChannelNoEffect == [][NoChannelStep /\ NoChannelPoll]_vars

\* ---- C11 ------------------------------------------------------------------
\* C11: dispatching a message whose type is not connect, input or resize
\* (or that has no type field) changes nothing but the receive history:
\* session, transports, tasks and what was sent stay as they are and the
\* handler stays in its loop.
UnknownKindStep ==
    (received' # received
       /\ Get(received'[Len(received')].msg, "type", "none")
            \notin {"connect", "input", "resize"})
    => /\ UNCHANGED <<ssh_session, clients, channels, output_task, tasks,
                      wsSent, outSrc, exitCause>>
       /\ hpc' = "recv"

C11_UnknownKindIgnored == [][UnknownKindStep]_vars

\* ---- C12 ------------------------------------------------------------------
\* C12: once the channel of a connected session has been closed by the peer,
\* the handler eventually finishes (the session is closed).
TransportDead ==
    /\ ssh_session.connected
    /\ ssh_session.channel # None
    /\ ~channels[ssh_session.channel].open

C12_DeadTransportCloses == TransportDead ~> (hpc = "done")

\* ---- C13 ------------------------------------------------------------------
\* C13: connected is true exactly when the session holds an open handle:
\* connected implies an open channel, and not connected implies that neither
\* the channel nor the client the session holds is open.
C13_ConnectedIffOpen ==
    /\ ssh_session.connected =>
          ssh_session.channel # None /\ channels[ssh_session.channel].open
    /\ ~ssh_session.connected =>
          /\ ssh_session.channel # None => ~channels[ssh_session.channel].open
          /\ ssh_session.client # None => ~clients[ssh_session.client].open

\* ---- C14 ------------------------------------------------------------------
\* C14: at most one channel opened by the session is open at any time.
OpenChannels == {ch \in DOMAIN channels : channels[ch].open}

C14_OneOpenTransport == Cardinality(OpenChannels) <= 1

\* ---- C15 ------------------------------------------------------------------
\* C15: when the handler has finished, every client and every channel a
\* connect of the session created has been closed, each exactly once.
C15_NoTransportOutlives ==
    hpc = "done" =>
        /\ \A cl \in DOMAIN clients : ~clients[cl].open /\ clients[cl].closes = 1
        /\ \A ch \in DOMAIN channels : ~channels[ch].open /\ channels[ch].closes = 1

\* ---- C16 ------------------------------------------------------------------
\* C16: at most one read_ssh_output task is alive (created and neither
\* finished nor cancelled) at any time.
AliveTasks == {t \in DOMAIN tasks : tasks[t] \in {"start", "sleep", "send"}}

C16_OneRelayTask == Cardinality(AliveTasks) <= 1

\* ---- C17 ------------------------------------------------------------------
\* C17: once the finally block has run, the task in output_task has been
\* cancelled and runs no further, the session holds no channel for a relay
\* task to read, no bytes are taken from any channel's buffer and no output
\* message is sent.
AfterTeardown ==
    hpc = "done" =>
        /\ output_task # None => tasks[output_task] \notin {"start", "sleep", "send"}
        /\ ssh_session.channel = None /\ ssh_session'.channel = None
        /\ wsSent' = wsSent /\ outSrc' = outSrc
        /\ \A ch \in DOMAIN channels :
              Len(channels'[ch].outbuf) >= Len(channels[ch].outbuf)

C17_NoReadAfterClose == [][AfterTeardown]_vars

C17_Witness ==
    /\ hpc = "done" /\ wsOpen
    /\ Len(tasks) = 2 /\ tasks[1] = "done" /\ tasks[2] = "cancelled"
    /\ \E ch \in DOMAIN channels : channels[ch].outbuf # <<>>

\* ---- C18 ------------------------------------------------------------------
\* C18: a step in which the channel call of write, resize or read raises
\* changes no field of the session, sends nothing to the client, leaves the
\* handler and every task where they were, and has no effect on the channel:
\* nothing is added to what the shell received, the size and the buffered
\* output stay as they were.
WriteOrResizeRaised == received' # received /\ ioError' \in {"write", "resize"}

ReadRaised == received' = received /\ ioError' = "read" /\ ioError # "read"

Effects(c) == <<c.inbox, c.size, c.outbuf, c.open, c.closes>>

SwallowedStep ==
    (WriteOrResizeRaised \/ ReadRaised)
    => /\ UNCHANGED <<ssh_session, clients, output_task, tasks, hpc, wsSent,
                      outSrc, exitCause>>
       /\ DOMAIN channels' = DOMAIN channels
       /\ \A ch \in DOMAIN channels : Effects(channels'[ch]) = Effects(channels[ch])

C18_TransportErrorsSwallowed == [][SwallowedStep]_vars

C18_Witness ==
    /\ ioError = "write"
    /\ ssh_session.connected /\ hpc = "recv"
    /\ channels[ssh_session.channel].open
    /\ Len(channels[ssh_session.channel].sends) = 2
    /\ Len(channels[ssh_session.channel].inbox) = 1

\* ---- C19 ------------------------------------------------------------------
\* C19: once the handler has finished, every relay task that was created
\* eventually is finished or cancelled, given that ready tasks are run.
C19_RelayTasksEnd == (hpc = "done") ~> (AliveTasks = {})

C19_Witness ==
    /\ hpc = "done" /\ exitCause = "disconnect"
    /\ Len(tasks) = 2 /\ tasks[1] = "done" /\ tasks[2] = "cancelled"

\* ---- C20 ------------------------------------------------------------------
\* C20: every output message sent to the client is preceded by a connected
\* message.
C20_OutputAfterConnected ==
    \A j \in DOMAIN wsSent :
        wsSent[j].type = "output" =>
            \E i \in 1..(j - 1) : wsSent[i].type = "connected"

C20_Witness ==
    /\ Len(wsSent) >= 2
    /\ wsSent[1].type = "connected"
    /\ wsSent[2].type = "output"

====
